---- MODULE Spec2Model ----
(***************************************************************************)
(* Model of django_dramatiq's "rundramatiq" management command             *)
(* (src/django_dramatiq/management/commands/rundramatiq.py).               *)
(*                                                                         *)
(* Strings.  A Python string is modelled as the sequence of its lexical    *)
(* pieces: the separator "." and the wildcard "*" are pieces of their own, *)
(* and every maximal run of other characters is one piece, so that         *)
(*     "app.tasks"   is  <<"app", ".", "tasks">>                           *)
(*     "a.*"         is  <<"a", ".", "*">>                                 *)
(*     "--path"      is  <<"--path">>          ""  is  <<>>                *)
(* Two Python strings are equal exactly when their piece sequences are.    *)
(* str.split("."), str.join and + are computed on the pieces.              *)
(***************************************************************************)
EXTENDS Integers, Sequences, FiniteSets, TLC

VARIABLES
    pc,                 \* position of the running operation
    module_name,        \* argument of is_ignored_module
    ret,                \* value returned by is_ignored_module
    installed_apps,     \* apps.get_app_configs(): the components' names, in order
    task_module_names,  \* settings.DRAMATIQ_AUTODISCOVER_MODULES
    ignored_modules,    \* settings.DRAMATIQ_IGNORED_MODULES, as a set
    modules,            \* import system: kind of each candidate task module
    listing,            \* pkgutil.walk_packages: relative names under a package
    tasks_modules,      \* list returned by discover_tasks_modules
    environ,            \* os.environ: DRAMATIQ_NPROCS and DRAMATIQ_NTHREADS
    cpu_count,          \* multiprocessing.cpu_count()
    platform,           \* sys.platform
    bin_dir,            \* os.path.dirname(sys.executable)
    files,              \* the paths for which os.path.isfile is true
    executables,        \* what the OS can start: paths, and bare names found on PATH
    cli,                \* --processes / --threads as typed, None when left out
    options,            \* the other keyword arguments of handle
    process_args,       \* the argument vector built by handle
    handoff             \* how handle ended: the exec'ed image or the exit

ignoreVars == <<module_name, ret>>
worldVars == <<installed_apps, task_module_names, ignored_modules, modules, listing>>
hostVars == <<environ, cpu_count, platform, bin_dir, files, executables>>
callVars == <<cli, options>>
outVars == <<process_args, handoff>>

vars == <<pc, ignoreVars, worldVars, tasks_modules, hostVars, callVars, outVars>>

----------------------------------------------------------------------------
(* Bounds of the model *)

\* longest dotted name given to is_ignored_module, in segments
MaxDepth == 3
\* largest ignore set given to is_ignored_module on its own
MaxPatterns == 2
\* longest DRAMATIQ_AUTODISCOVER_MODULES tuple
MaxTaskNames == 2
\* highest verbosity given to handle
MaxVerbosity == 3
\* most --fork-function options given
MaxForks == 2
\* highest exit status of the child process
MaxReturnCode == 2

----------------------------------------------------------------------------
(* Strings *)

DOT == "."
STAR == "*"

\* the string s, a single piece
S(s) == <<s>>

\* Python's None
None == [type |-> "NoneType"]

RECURSIVE Flatten(_)
\* concatenation of a sequence of sequences
Flatten(ss) ==
    IF ss = <<>> THEN <<>> ELSE Head(ss) \o Flatten(Tail(ss))

\* index of the first "." of s, or 0
FirstDot(s) ==
    IF \E i \in 1..Len(s) : s[i] = DOT
    THEN CHOOSE i \in 1..Len(s) : s[i] = DOT /\ \A j \in 1..(i - 1) : s[j] # DOT
    ELSE 0

RECURSIVE split(_)
\* module_name.split("."): the pieces between the dots, empty ones included
split(s) ==
    IF FirstDot(s) = 0
    THEN <<s>>
    ELSE <<SubSeq(s, 1, FirstDot(s) - 1)>> \o split(SubSeq(s, FirstDot(s) + 1, Len(s)))

RECURSIVE join(_)
\* ".".join(parts)
join(parts) ==
    IF parts = <<>> THEN <<>>
    ELSE IF Len(parts) = 1 THEN parts[1]
    ELSE parts[1] \o <<DOT>> \o join(Tail(parts))

----------------------------------------------------------------------------
(* is_ignored_module *)

\* part_name of iteration c of the loop over range(1, len(name_parts))
part_name(name_parts, c) == join(SubSeq(name_parts, 1, c)) \o <<DOT, STAR>>

\* a slip: the loop runs over range(1, len(name_parts) + 1)
is_ignored_module_through_full_name(name, ignored) ==
    IF ignored = {} THEN FALSE
    ELSE IF name \in ignored THEN TRUE
    ELSE \E c \in 1..Len(split(name)) : part_name(split(name), c) \in ignored

\* a slip: only the first segment is tried as a wildcard prefix
is_ignored_module_first_segment_only(name, ignored) ==
    IF ignored = {} THEN FALSE
    ELSE IF name \in ignored THEN TRUE
    ELSE Len(split(name)) > 1 /\ part_name(split(name), 1) \in ignored

is_ignored_module(name, ignored) ==
    IF ignored = {} THEN FALSE
    ELSE IF name \in ignored THEN TRUE
    ELSE \E c \in 1..(Len(split(name)) - 1) : part_name(split(name), c) \in ignored

----------------------------------------------------------------------------
(* Inputs of is_ignored_module *)

Atoms == {"a", "b"}

\* the dotted names of exactly k segments
NamesOfDepth(k) == { join([i \in 1..k |-> <<f[i]>>]) : f \in [1..k -> Atoms] }

DottedNames(n) == UNION { NamesOfDepth(k) : k \in 1..n }

Wildcard(p) == p \o <<DOT, STAR>>

Patterns == DottedNames(MaxDepth) \cup { Wildcard(p) : p \in DottedNames(MaxDepth - 1) }

RECURSIVE SetsUpTo(_, _)
\* the subsets of U of at most k elements
SetsUpTo(U, k) ==
    IF k = 0 THEN {{}}
    ELSE SetsUpTo(U, k - 1) \cup { P \cup {x} : P \in SetsUpTo(U, k - 1), x \in U }

PatternSets == SetsUpTo(Patterns, MaxPatterns)

----------------------------------------------------------------------------
(* Specification of is_ignored_module on its own *)

NoApps == <<>>
NoModules == <<>>

\* the command itself is not run: its inputs and results stay unset
NoCommand ==
    /\ environ = None
    /\ cpu_count = None
    /\ platform = None
    /\ bin_dir = None
    /\ files = {}
    /\ executables = {}
    /\ cli = None
    /\ options = None
    /\ process_args = None
    /\ handoff = None

InitIgnore ==
    /\ pc = "start"
    /\ module_name \in DottedNames(MaxDepth)
    /\ ignored_modules \in PatternSets
    /\ ret = None
    /\ installed_apps = NoApps
    /\ task_module_names = <<>>
    /\ modules = NoModules
    /\ listing = <<>>
    /\ tasks_modules = None
    /\ NoCommand

CallIsIgnored ==
    /\ pc = "start"
    /\ ret' = is_ignored_module(module_name, ignored_modules)
    /\ pc' = "done"
    /\ UNCHANGED <<module_name, worldVars, tasks_modules, hostVars, callVars, outVars>>

NextIgnore == CallIsIgnored

SpecIgnore == InitIgnore /\ [][NextIgnore]_vars

----------------------------------------------------------------------------
(* Claims about is_ignored_module *)

\* the wildcard patterns that cover name: one per "." of name, made of the
\* pieces before that dot followed by ".*"
CoveringWildcards(name) ==
    { SubSeq(name, 1, i - 1) \o <<DOT, STAR>> : i \in { j \in 1..Len(name) : name[j] = DOT } }

\* name lies strictly beneath p: name is p, a ".", and more
Beneath(name, p) ==
    /\ Len(name) > Len(p) + 1
    /\ SubSeq(name, 1, Len(p)) = p
    /\ name[Len(p) + 1] = DOT

\* C1: is_ignored_module(m) is true exactly when the ignore set is non-empty
\* and m is a member of it or the wildcard of a proper leading run of m's
\* segments is; a name without a dot is ignored by exact membership only.
C1_IgnoredExactly ==
    pc = "done" =>
        /\ ret = ( /\ ignored_modules # {}
                   /\ \/ module_name \in ignored_modules
                      \/ CoveringWildcards(module_name) \cap ignored_modules # {} )
        /\ (FirstDot(module_name) = 0 => ret = (module_name \in ignored_modules))

C1_Witness ==
    /\ pc = "done"
    /\ ret = TRUE
    /\ module_name \notin ignored_modules
    /\ Len(split(module_name)) = 3

\* C2 as stated: with "p.*" in the ignore set, p itself and every module
\* beneath p are ignored.
C2_WildcardCoversPrefixItself ==
    pc = "done" =>
        \A p \in DottedNames(MaxDepth) :
            (Wildcard(p) \in ignored_modules /\ (module_name = p \/ Beneath(module_name, p)))
                => ret = TRUE

\* C2 amended: with "p.*" in the ignore set every module beneath p is
\* ignored, while p itself is ignored only when it is a member of the set
\* or lies beneath the prefix of another wildcard of the set.
C2_WildcardCoversDescendantsOnly ==
    pc = "done" =>
        \A p \in DottedNames(MaxDepth) :
            Wildcard(p) \in ignored_modules =>
                /\ Beneath(module_name, p) => ret = TRUE
                /\ module_name = p =>
                      ret = \/ p \in ignored_modules
                            \/ \E q \in DottedNames(MaxDepth) :
                                  Wildcard(q) \in ignored_modules /\ Beneath(p, q)

C2_Witness ==
    /\ pc = "done"
    /\ Wildcard(module_name) \in ignored_modules
    /\ ret = FALSE

----------------------------------------------------------------------------
(* discover_tasks_modules *)

DJANGO_DRAMATIQ == <<"django_dramatiq">>
TASKS == <<"tasks">>
SETUP_MODULE == <<"django_dramatiq", DOT, "setup">>

\* conf.name + "." + task_module
dotted(name, task_module) == name \o <<DOT>> \o task_module

\* module_has_submodule(conf.module, task_module)
module_has_submodule(name, task_module, mods) ==
    /\ dotted(name, task_module) \in DOMAIN mods
    /\ mods[dotted(name, task_module)] # "absent"

\* importlib.import_module(module) returns instead of raising
import_succeeds(module, mods) ==
    module \in DOMAIN mods /\ mods[module] # "absent"

\* a slip: every imported module is taken for a plain module
is_package_never(module, mods) == FALSE

\* Command._is_package: hasattr(module, "__path__")
_is_package(module, mods) == mods[module] = "package"

\* Command._get_submodules: the names pkgutil.walk_packages yields, each
\* prefixed with package.__name__ + "."
_get_submodules(package, lst) ==
    [i \in 1..Len(lst) |-> (package \o <<DOT>>) \o lst[i]]

RECURSIVE candidates_of(_, _, _)
\* the inner loop of lines 171-173 for one component
candidates_of(name, names, mods) ==
    IF names = <<>> THEN <<>>
    ELSE (IF module_has_submodule(name, Head(names), mods)
          THEN << <<name, Head(names)>> >> ELSE <<>>)
         \o candidates_of(name, Tail(names), mods)

RECURSIVE app_configs_like_any_other(_, _, _)
\* a slip: the component django_dramatiq is not special-cased
app_configs_like_any_other(apps, names, mods) ==
    IF apps = <<>> THEN <<>>
    ELSE candidates_of(Head(apps), names, mods)
         \o app_configs_like_any_other(Tail(apps), names, mods)

RECURSIVE app_configs(_, _, _)
\* the list app_configs built by lines 165-173: (component, task module) pairs
app_configs(apps, names, mods) ==
    IF apps = <<>> THEN <<>>
    ELSE (IF Head(apps) = DJANGO_DRAMATIQ
          THEN << <<Head(apps), TASKS>> >>
          ELSE candidates_of(Head(apps), names, mods))
         \o app_configs(Tail(apps), names, mods)

\* a slip: the walked submodules are appended without the ignore test
accepted_submodules_unfiltered(submodules, ignored) == submodules

\* the loop of lines 205-210: the submodules that are not ignored, in order
accepted_submodules(submodules, ignored) ==
    SelectSeq(submodules, LAMBDA m : ~is_ignored_module(m, ignored))

RECURSIVE discover_loop(_, _, _, _, _)
\* the loop of lines 192-210 from the candidate list cands on, tasks being
\* the list built so far; raised tells whether import_module raised
discover_loop(tasks, cands, ignored, mods, lst) ==
    IF cands = <<>> THEN [raised |-> FALSE, value |-> tasks]
    ELSE LET module == dotted(Head(cands)[1], Head(cands)[2]) IN
         IF is_ignored_module(module, ignored)
         THEN discover_loop(tasks, Tail(cands), ignored, mods, lst)
         ELSE IF ~import_succeeds(module, mods)
         THEN [raised |-> TRUE, value |-> module]
         ELSE IF ~_is_package(module, mods)
         THEN discover_loop(Append(tasks, module), Tail(cands), ignored, mods, lst)
         ELSE discover_loop(
                  tasks \o accepted_submodules(_get_submodules(module, lst), ignored),
                  Tail(cands), ignored, mods, lst)

\* a slip: the setup module is seeded only when it is not ignored
discover_tasks_modules_seed_filtered(apps, names, ignored, mods, lst) ==
    discover_loop(IF is_ignored_module(SETUP_MODULE, ignored) THEN <<>> ELSE <<SETUP_MODULE>>,
                  app_configs(apps, names, mods), ignored, mods, lst)

discover_tasks_modules(apps, names, ignored, mods, lst) ==
    discover_loop(<<SETUP_MODULE>>, app_configs(apps, names, mods), ignored, mods, lst)

----------------------------------------------------------------------------
(* Inputs of discover_tasks_modules *)

APP == <<"app">>
JOBS == <<"jobs">>

\* the installed components: distinct names, in any order
AppLists == { <<>>, <<DJANGO_DRAMATIQ>>, <<APP>>,
              <<DJANGO_DRAMATIQ, APP>>, <<APP, DJANGO_DRAMATIQ>> }

RECURSIVE SeqsUpTo(_, _)
\* the sequences over U of length at most k
SeqsUpTo(U, k) ==
    IF k = 0 THEN {<<>>}
    ELSE SeqsUpTo(U, k - 1) \cup { Append(q, x) : q \in SeqsUpTo(U, k - 1), x \in U }

TaskNameLists == SeqsUpTo({TASKS, JOBS}, MaxTaskNames)

CandidatePaths == { dotted(DJANGO_DRAMATIQ, TASKS), dotted(APP, TASKS), dotted(APP, JOBS) }

Kinds == {"absent", "module", "package"}

\* what walk_packages finds under a package, relative to it
Listings == { <<>>,
              << <<"email">>, <<"sms">> >>,
              << <<"sms">>, <<"utils">>, <<"utils", DOT, "email">> >> }

DiscoverPatterns ==
    { dotted(APP, TASKS),
      dotted(APP, TASKS) \o <<DOT, "sms">>,
      Wildcard(dotted(APP, TASKS)),
      Wildcard(APP),
      dotted(DJANGO_DRAMATIQ, TASKS),
      SETUP_MODULE }

InitDiscover ==
    /\ pc = "start"
    /\ module_name = <<>>
    /\ ret = None
    /\ installed_apps \in AppLists
    /\ task_module_names \in TaskNameLists
    /\ ignored_modules \in SUBSET DiscoverPatterns
    /\ modules \in [CandidatePaths -> Kinds]
    /\ listing \in Listings
    /\ tasks_modules = None
    /\ NoCommand

Discovered ==
    discover_tasks_modules(installed_apps, task_module_names, ignored_modules, modules, listing)

\* discover_tasks_modules runs to its return statement
DiscoverReturns ==
    /\ pc = "start"
    /\ ~Discovered.raised
    /\ tasks_modules' = Discovered.value
    /\ pc' = "done"
    /\ UNCHANGED <<ignoreVars, worldVars, hostVars, callVars, outVars>>

\* importlib.import_module raises and the exception leaves the method
DiscoverRaises ==
    /\ pc = "start"
    /\ Discovered.raised
    /\ pc' = "raised"
    /\ UNCHANGED <<ignoreVars, worldVars, tasks_modules, hostVars, callVars, outVars>>

NextDiscover == DiscoverReturns \/ DiscoverRaises

SpecDiscover == InitDiscover /\ [][NextDiscover]_vars

----------------------------------------------------------------------------
(* Claims about discover_tasks_modules *)

\* name is excluded by the ignore set P, as C1 characterises it
Excluded(name, P) ==
    /\ P # {}
    /\ name \in P \/ CoveringWildcards(name) \cap P # {}

\* the candidate task modules in the order the components are enumerated:
\* "tasks" for django_dramatiq, and for any other component the configured
\* names it has a submodule for, in configured order
CandidatesOf(name) ==
    IF name = DJANGO_DRAMATIQ THEN <<dotted(name, TASKS)>>
    ELSE [i \in 1..Len(task_module_names) |-> dotted(name, task_module_names[i])]

Existing(paths) ==
    SelectSeq(paths, LAMBDA m : m = dotted(DJANGO_DRAMATIQ, TASKS) \/ modules[m] # "absent")

Candidates ==
    Flatten([i \in 1..Len(installed_apps) |-> Existing(CandidatesOf(installed_apps[i]))])

\* what walk_packages lists under the package m, fully dotted
Descendants(m) == [i \in 1..Len(listing) |-> m \o <<DOT>> \o listing[i]]

\* what one candidate adds to the list under the ignore set P
Contribution(m, P) ==
    IF Excluded(m, P) THEN <<>>
    ELSE IF modules[m] = "package"
    THEN SelectSeq(Descendants(m), LAMBDA d : ~Excluded(d, P))
    ELSE <<m>>

\* C4: whenever discover_tasks_modules returns, the list has at least one
\* element and its first element is the setup module.
C4_SetupModuleFirst ==
    pc = "done" => Len(tasks_modules) >= 1 /\ tasks_modules[1] = SETUP_MODULE

\* every candidate is ignored, the setup module is in the ignore set too
C4_Witness ==
    /\ pc = "done"
    /\ Len(Candidates) >= 2
    /\ SETUP_MODULE \in ignored_modules
    /\ tasks_modules = <<SETUP_MODULE>>

\* C5: the returned list is the setup module followed by each candidate's
\* contribution in enumeration order: the candidate itself when it is not a
\* package, its not-ignored descendants in walk order (and not the package
\* itself) when it is one.
C5_ContributionsInOrder ==
    pc = "done" =>
        tasks_modules =
            <<SETUP_MODULE>>
            \o Flatten([i \in 1..Len(Candidates) |-> Contribution(Candidates[i], ignored_modules)])

\* a package with an accepted and an ignored descendant, after another candidate
C5_Witness ==
    /\ pc = "done"
    /\ Len(Candidates) >= 2
    /\ \E i \in 2..Len(Candidates) :
          /\ modules[Candidates[i]] = "package"
          /\ ~Excluded(Candidates[i], ignored_modules)
          /\ Len(Contribution(Candidates[i], ignored_modules)) \in 1..(Len(listing) - 1)
    /\ modules[Candidates[1]] = "module"
    /\ Len(tasks_modules) >= 3

\* the ignore set is {p} for a pattern p without a wildcard
SinglePattern(p) == ignored_modules = {p} /\ STAR \notin { p[i] : i \in 1..Len(p) }

\* the list returned for the same components with an empty ignore set
Baseline ==
    discover_tasks_modules(installed_apps, task_module_names, {}, modules, listing)

\* C3 as stated: with ignore set {p}, p without a wildcard, the list is the
\* list of the empty ignore set with at most the module p taken out; every
\* other module is still there, in the same order.
C3_OnlyExactMatchAbsent ==
    pc = "done" =>
        \A p \in DiscoverPatterns :
            (SinglePattern(p) /\ ~Baseline.raised) =>
                SelectSeq(tasks_modules, LAMBDA m : m # p)
                    = SelectSeq(Baseline.value, LAMBDA m : m # p)

\* what the candidate m contributes with an empty ignore set
BaseContribution(m) ==
    discover_loop(<<>>, << <<SubSeq(m, 1, Len(m) - 2), SubSeq(m, Len(m), Len(m))>> >>,
                  {}, modules, listing).value

\* C3 amended: with ignore set {p}, p without a wildcard, the list is the
\* list of the empty ignore set without the entries named p (the seeded
\* setup module stays) and, when p is itself a candidate task module,
\* without anything that candidate contributes: a package candidate named p
\* is not walked, so its descendants are absent too.
C3_ExactMatchAndItsWalkAbsent ==
    pc = "done" =>
        \A p \in DiscoverPatterns :
            SinglePattern(p) =>
                tasks_modules =
                    <<SETUP_MODULE>>
                    \o Flatten([i \in 1..Len(Candidates) |->
                           IF Candidates[i] = p THEN <<>>
                           ELSE SelectSeq(BaseContribution(Candidates[i]),
                                          LAMBDA m : m # p)])

\* the ignored module is a candidate package: its walk is missing
C3_Witness ==
    /\ pc = "done"
    /\ \E p \in DiscoverPatterns :
          /\ SinglePattern(p)
          /\ ~Baseline.raised
          /\ \E i \in 1..Len(Candidates) : Candidates[i] = p /\ modules[p] = "package"
          /\ \E i \in 1..Len(Baseline.value) : Beneath(Baseline.value[i], p)
          /\ \A i \in 1..Len(tasks_modules) : ~Beneath(tasks_modules[i], p)
          /\ Len(tasks_modules) >= 2

\* C6 as stated: when the component django_dramatiq is installed, the
\* returned list contains django_dramatiq.tasks or, if that is a package,
\* its submodules, whatever the configured names and the ignore set.
C6_OwnTasksAlwaysListed ==
    (pc = "done" /\ \E i \in 1..Len(installed_apps) : installed_apps[i] = DJANGO_DRAMATIQ) =>
        LET own == dotted(DJANGO_DRAMATIQ, TASKS)
            listed == { tasks_modules[i] : i \in 1..Len(tasks_modules) }
        IN  IF modules[own] = "package"
            THEN \A i \in 1..Len(listing) : Descendants(own)[i] \in listed
            ELSE own \in listed

\* C6 amended: when the component django_dramatiq is installed then,
\* whatever the configured names, django_dramatiq.tasks is a candidate, and
\* unless the ignore set excludes it the returned list contains it or, if it
\* is a package, those of its submodules that the ignore set does not exclude.
C6_OwnTasksListedUnlessIgnored ==
    (pc = "done" /\ \E i \in 1..Len(installed_apps) : installed_apps[i] = DJANGO_DRAMATIQ) =>
        LET own == dotted(DJANGO_DRAMATIQ, TASKS)
            listed == { tasks_modules[i] : i \in 1..Len(tasks_modules) }
        IN  ~Excluded(own, ignored_modules) =>
                IF modules[own] = "package"
                THEN \A i \in 1..Len(listing) :
                        ~Excluded(Descendants(own)[i], ignored_modules)
                            => Descendants(own)[i] \in listed
                ELSE own \in listed

\* no configured name is "tasks", and the own tasks module is listed
C6_Witness ==
    /\ pc = "done"
    /\ \A i \in 1..Len(task_module_names) : task_module_names[i] # TASKS
    /\ \E i \in 1..Len(installed_apps) : installed_apps[i] = DJANGO_DRAMATIQ
    /\ \E i \in 1..Len(tasks_modules) : tasks_modules[i] = dotted(DJANGO_DRAMATIQ, TASKS)

----------------------------------------------------------------------------
(* Python values given to handle *)

\* a str object holding the string s
Str(s) == [type |-> "str", val |-> s]

\* a list object holding the sequence q
List(q) == [type |-> "list", val |-> q]

\* the truth value of "if v:" for None, a str or a list
truthy(v) == v.type # "NoneType" /\ v.val # <<>>

\* the items of "*v": the elements of a list, the characters of a str (each
\* piece of the strings unpacked here is a single character)
unpack(v) == IF v.type = "str" THEN [i \in 1..Len(v.val) |-> <<v.val[i]>>] ELSE v.val

\* str(n) for an int n
str(n) == <<ToString(n)>>

----------------------------------------------------------------------------
(* Defaults of --processes and --threads *)

DEFAULT_NTHREADS == 8
DEFAULT_SHUTDOWN_TIMEOUT == 600000

\* int(envstr) for a decimal numeral
int(envstr) == CHOOSE n \in 0..99 : str(n) = envstr

\* django_dramatiq.utils.getenv_int: the variable's value as an int when it
\* is set, the default otherwise
getenv_int(env, varname, default) ==
    IF env[varname].type = "NoneType" THEN default ELSE int(env[varname].val)

\* a slip: the environment is not consulted
NPROCS_cpu_count_only(env, cpus) == cpus

\* NPROCS = getenv_int("DRAMATIQ_NPROCS", default=multiprocessing.cpu_count)
NPROCS(env, cpus) == getenv_int(env, "DRAMATIQ_NPROCS", cpus)

\* NTHREADS = getenv_int("DRAMATIQ_NTHREADS", 8)
NTHREADS(env) == getenv_int(env, "DRAMATIQ_NTHREADS", DEFAULT_NTHREADS)

\* parser.add_argument("--processes", default=NPROCS, type=int)
processes_option(typed, env, cpus) ==
    IF typed.processes.type = "NoneType" THEN NPROCS(env, cpus) ELSE typed.processes.val

\* parser.add_argument("--threads", default=NTHREADS, type=int)
threads_option(typed, env) ==
    IF typed.threads.type = "NoneType" THEN NTHREADS(env) ELSE typed.threads.val

----------------------------------------------------------------------------
(* handle *)

WATCH == S("--watch")
WATCH_USE_POLLING == S("--watch-use-polling")

\* os.path.join(a, b), os.sep being one piece
path_join(a, b) == a \o <<"/">> \o b

\* Command._resolve_executable
_resolve_executable(exec_name, bdir, fls) ==
    IF bdir # <<>> /\ path_join(bdir, exec_name) \in fls
    THEN path_join(bdir, exec_name)
    ELSE IF bdir # <<>> /\ path_join(path_join(bdir, S("Scripts")), exec_name) \in fls
    THEN path_join(path_join(bdir, S("Scripts")), exec_name)
    ELSE exec_name

\* executable_name = "dramatiq-gevent" if use_gevent else "dramatiq"
executable_name(use_gevent) ==
    IF use_gevent THEN S("dramatiq-gevent") ELSE S("dramatiq")

\* a slip: the polling flag follows --reload-use-polling alone
watch_args_polling_alone(watch_dir, use_polling_watcher) ==
    (IF truthy(watch_dir) THEN <<WATCH, watch_dir.val>> ELSE <<>>)
    \o (IF use_polling_watcher THEN <<WATCH_USE_POLLING>> ELSE <<>>)

\* lines 111-113
watch_args(watch_dir, use_polling_watcher) ==
    LET args == IF truthy(watch_dir) THEN <<WATCH, watch_dir.val>> ELSE <<>> IN
    IF args # <<>> /\ use_polling_watcher THEN Append(args, WATCH_USE_POLLING) ELSE args

RECURSIVE forks_args(_)
\* lines 115-118
forks_args(forks) ==
    IF forks = <<>> THEN <<>>
    ELSE <<S("--fork-function"), Head(forks)>> \o forks_args(Tail(forks))

\* ["-v"] * (verbosity - 1)
verbosity_args(verbosity) == [i \in 1..(verbosity - 1) |-> S("-v")]

\* a slip: the optional arguments are put before the task modules
build_process_args_options_first(o, processes, threads, tasks) ==
    <<executable_name(o.use_gevent), S("--path")>> \o unpack(o.path)
    \o <<S("--processes"), str(processes),
         S("--threads"), str(threads),
         S("--worker-shutdown-timeout"), str(o.worker_shutdown_timeout)>>
    \o watch_args(o.watch_dir, o.use_polling_watcher)
    \o forks_args(o.forks)
    \o verbosity_args(o.verbosity)
    \o (IF truthy(o.queues) THEN <<S("--queues")>> \o o.queues.val ELSE <<>>)
    \o (IF truthy(o.pid_file) THEN <<S("--pid-file"), o.pid_file.val>> ELSE <<>>)
    \o (IF truthy(o.log_file) THEN <<S("--log-file"), o.log_file.val>> ELSE <<>>)
    \o (IF o.skip_logging THEN <<S("--skip-logging")>> ELSE <<>>)
    \o tasks

\* process_args as lines 122-152 build it
build_process_args(o, processes, threads, tasks) ==
    <<executable_name(o.use_gevent), S("--path")>> \o unpack(o.path)
    \o <<S("--processes"), str(processes),
         S("--threads"), str(threads),
         S("--worker-shutdown-timeout"), str(o.worker_shutdown_timeout)>>
    \o watch_args(o.watch_dir, o.use_polling_watcher)
    \o forks_args(o.forks)
    \o verbosity_args(o.verbosity)
    \o tasks
    \o (IF truthy(o.queues) THEN <<S("--queues")>> \o o.queues.val ELSE <<>>)
    \o (IF truthy(o.pid_file) THEN <<S("--pid-file"), o.pid_file.val>> ELSE <<>>)
    \o (IF truthy(o.log_file) THEN <<S("--log-file"), o.log_file.val>> ELSE <<>>)
    \o (IF o.skip_logging THEN <<S("--skip-logging")>> ELSE <<>>)

\* the object subprocess.run returns
CompletedProcess(args, returncode) ==
    [type |-> "CompletedProcess", args |-> args, returncode |-> returncode]

\* the exit status sys.exit(arg) ends the process with: 0 for None, the
\* value for an int, and 1 (after printing arg) for any other object
sys_exit_status(arg) ==
    IF arg.type = "NoneType" THEN 0
    ELSE IF arg.type = "int" THEN arg.val
    ELSE 1

\* the status handle exits with on win32: sys.exit(subprocess.run(command))
win32_exit_status(command, returncode) ==
    sys_exit_status(CompletedProcess(command, returncode))

----------------------------------------------------------------------------
(* Inputs of handle *)

\* an int object
IntObj(n) == [type |-> "int", val |-> n]

ForkFunctions == { <<"app", DOT, "forks", DOT, "metrics">>, <<"app", DOT, "forks", DOT, "beat">> }

BIN_DIR == S("/venv/bin")

\* where the executable exec_name may be installed
ExecutablePaths(exec_name) ==
    { path_join(BIN_DIR, exec_name), path_join(path_join(BIN_DIR, S("Scripts")), exec_name) }

\* the components of the runs of handle: django_dramatiq with its tasks
\* module and an application whose tasks module is a package
HandleWorld(own_kind) ==
    /\ installed_apps = <<DJANGO_DRAMATIQ, APP>>
    /\ task_module_names = <<TASKS>>
    /\ ignored_modules = {}
    /\ modules = [m \in CandidatePaths |->
                     IF m = dotted(DJANGO_DRAMATIQ, TASKS) THEN own_kind
                     ELSE IF m = dotted(APP, TASKS) THEN "package"
                     ELSE "absent"]
    /\ listing = << <<"email">>, <<"sms">> >>

\* every combination of the options that shape the argument vector, the
\* counts being left to their defaults
InitOptions ==
    /\ options \in
          [ watch_dir : {None, Str(<<>>), Str(S("src"))},
            skip_logging : BOOLEAN,
            use_polling_watcher : BOOLEAN,
            use_gevent : BOOLEAN,
            path : {Str(<<DOT>>), List(<<>>), List(<<S("src"), S("lib")>>)},
            verbosity : 0..MaxVerbosity,
            queues : {None, List(<<>>), List(<<S("default"), S("mail")>>)},
            pid_file : {None, Str(<<"worker", DOT, "pid">>)},
            log_file : {None, Str(<<"worker", DOT, "log">>)},
            forks : SeqsUpTo(ForkFunctions, MaxForks),
            worker_shutdown_timeout : {DEFAULT_SHUTDOWN_TIMEOUT} ]
    /\ cli = [processes |-> None, threads |-> None]
    /\ environ = [DRAMATIQ_NPROCS |-> None, DRAMATIQ_NTHREADS |-> None]
    /\ cpu_count = 4
    /\ platform \in {"linux", "win32"}
    /\ bin_dir = BIN_DIR
    /\ files = { path_join(BIN_DIR, executable_name(options.use_gevent)) }
    /\ executables = files
    /\ HandleWorld("module")

\* every combination of typed counts, environment, host and platform, the
\* other options being left to their defaults
InitLaunch ==
    /\ options \in
          [ watch_dir : {None},
            skip_logging : {FALSE},
            use_polling_watcher : {FALSE},
            use_gevent : BOOLEAN,
            path : {Str(<<DOT>>)},
            verbosity : {1},
            queues : {None},
            pid_file : {None},
            log_file : {None},
            forks : {<<>>},
            worker_shutdown_timeout : {DEFAULT_SHUTDOWN_TIMEOUT, 5000} ]
    /\ cli \in [processes : {None, IntObj(2)}, threads : {None, IntObj(4)}]
    /\ environ \in [DRAMATIQ_NPROCS : {None, Str(S("3"))},
                    DRAMATIQ_NTHREADS : {None, Str(S("16"))}]
    /\ cpu_count \in {1, 4}
    /\ platform \in {"linux", "win32"}
    /\ bin_dir \in {<<>>, BIN_DIR}
    /\ files \in SUBSET ExecutablePaths(executable_name(options.use_gevent))
    /\ executables \in SUBSET (files \cup {executable_name(options.use_gevent)})
    /\ \E own_kind \in {"module", "absent"} : HandleWorld(own_kind)

InitHandle ==
    /\ pc = "start"
    /\ module_name = <<>>
    /\ ret = None
    /\ tasks_modules = None
    /\ process_args = None
    /\ handoff = None
    /\ InitOptions \/ InitLaunch

\* the values handle computes before the handoff
Tasks ==
    discover_tasks_modules(installed_apps, task_module_names, ignored_modules, modules, listing)
Processes == processes_option(cli, environ, cpu_count)
Threads == threads_option(cli, environ)
Args == build_process_args(options, Processes, Threads, Tasks.value)
ExecutablePath == _resolve_executable(executable_name(options.use_gevent), bin_dir, files)

\* the OS can start the file: a path it can execute, or a bare name that a
\* directory of PATH holds
can_start(file, execs) == file \in execs

\* handle on a platform with os.execvp: the process image is replaced
HandleExecvp ==
    /\ pc = "start"
    /\ ~Tasks.raised
    /\ platform # "win32"
    /\ can_start(ExecutablePath, executables)
    /\ tasks_modules' = Tasks.value
    /\ process_args' = Args
    /\ handoff' = [kind |-> "execvp", file |-> ExecutablePath, args |-> Args]
    /\ pc' = "replaced"
    /\ UNCHANGED <<ignoreVars, worldVars, hostVars, callVars>>

\* os.execvp raises OSError (no such file, or not executable): the image is
\* not replaced and the exception leaves handle
HandleExecvpRaises ==
    /\ pc = "start"
    /\ ~Tasks.raised
    /\ platform # "win32"
    /\ ~can_start(ExecutablePath, executables)
    /\ tasks_modules' = Tasks.value
    /\ process_args' = Args
    /\ handoff' = [kind |-> "raised", exception |-> "OSError", file |-> ExecutablePath]
    /\ pc' = "launch_failed"
    /\ UNCHANGED <<ignoreVars, worldVars, hostVars, callVars>>

\* handle on win32: the child is run to its end, then sys.exit
HandleWin32 ==
    /\ pc = "start"
    /\ ~Tasks.raised
    /\ platform = "win32"
    /\ can_start(ExecutablePath, executables)
    /\ \E returncode \in 0..MaxReturnCode :
          LET command == <<ExecutablePath>> \o Tail(Args) IN
          handoff' = [kind |-> "exit", command |-> command, returncode |-> returncode,
                      status |-> win32_exit_status(command, returncode)]
    /\ tasks_modules' = Tasks.value
    /\ process_args' = Args
    /\ pc' = "exited"
    /\ UNCHANGED <<ignoreVars, worldVars, hostVars, callVars>>

\* subprocess.run raises OSError before any child exists: sys.exit is not
\* reached and the exception leaves handle
HandleWin32Raises ==
    /\ pc = "start"
    /\ ~Tasks.raised
    /\ platform = "win32"
    /\ ~can_start(ExecutablePath, executables)
    /\ tasks_modules' = Tasks.value
    /\ process_args' = Args
    /\ handoff' = [kind |-> "raised", exception |-> "OSError", file |-> ExecutablePath]
    /\ pc' = "launch_failed"
    /\ UNCHANGED <<ignoreVars, worldVars, hostVars, callVars>>

\* discover_tasks_modules raises and the exception leaves handle
HandleRaises ==
    /\ pc = "start"
    /\ Tasks.raised
    /\ pc' = "raised"
    /\ UNCHANGED <<ignoreVars, worldVars, tasks_modules, hostVars, callVars, outVars>>

NextHandle ==
    \/ HandleExecvp
    \/ HandleExecvpRaises
    \/ HandleWin32
    \/ HandleWin32Raises
    \/ HandleRaises

SpecHandle == InitHandle /\ [][NextHandle]_vars

Spec == SpecHandle

----------------------------------------------------------------------------
(* Claims about handle *)

\* handle has built its argument vector and attempted the handoff
Built == pc \in {"replaced", "exited", "launch_failed"}

\* C7: the argument vector holds "--watch-use-polling" only right after
\* "--watch" and the watch directory.
C7_PollingOnlyAfterWatchDir ==
    Built =>
        \A i \in 1..Len(process_args) :
            process_args[i] = WATCH_USE_POLLING =>
                /\ i >= 3
                /\ truthy(options.watch_dir)
                /\ process_args[i - 2] = WATCH
                /\ process_args[i - 1] = options.watch_dir.val

C7_Witness ==
    /\ Built
    /\ \E i \in 1..Len(process_args) : process_args[i] = WATCH_USE_POLLING

\* the parts of the argument vector as C8 lists them
PathPart == <<S("--path")>> \o unpack(options.path)
CountsPart ==
    <<S("--processes"), str(Processes), S("--threads"), str(Threads),
      S("--worker-shutdown-timeout"), str(options.worker_shutdown_timeout)>>
WatchPart ==
    IF options.watch_dir.type = "NoneType" \/ options.watch_dir.val = <<>> THEN <<>>
    ELSE IF options.use_polling_watcher
    THEN <<WATCH, options.watch_dir.val, WATCH_USE_POLLING>>
    ELSE <<WATCH, options.watch_dir.val>>
ForksPart ==
    [i \in 1..(2 * Len(options.forks)) |->
        IF i % 2 = 1 THEN S("--fork-function") ELSE options.forks[i \div 2]]
VerbosityPart ==
    [i \in 1..(IF options.verbosity <= 1 THEN 0 ELSE options.verbosity - 1) |-> S("-v")]
QueuesPart ==
    IF options.queues.type = "NoneType" \/ options.queues.val = <<>> THEN <<>>
    ELSE <<S("--queues")>> \o options.queues.val
PidFilePart ==
    IF options.pid_file.type = "NoneType" THEN <<>> ELSE <<S("--pid-file"), options.pid_file.val>>
LogFilePart ==
    IF options.log_file.type = "NoneType" THEN <<>> ELSE <<S("--log-file"), options.log_file.val>>
SkipLoggingPart == IF options.skip_logging THEN <<S("--skip-logging")>> ELSE <<>>

\* C8: the argument vector is the executable name, --path and the paths,
\* the three counts, the watch arguments, the fork functions, the -v flags,
\* the discovered modules, then --queues, --pid-file, --log-file and
\* --skip-logging, each part only when supplied.
C8_ArgumentOrder ==
    Built =>
        /\ process_args[1] \in {S("dramatiq"), S("dramatiq-gevent")}
        /\ process_args[1] = S("dramatiq-gevent") <=> options.use_gevent
        /\ Tail(process_args) =
              Flatten(<<PathPart, CountsPart, WatchPart, ForksPart, VerbosityPart,
                        tasks_modules,
                        QueuesPart, PidFilePart, LogFilePart, SkipLoggingPart>>)

C8_Witness ==
    /\ Built
    /\ WatchPart # <<>> /\ options.use_polling_watcher
    /\ Len(options.forks) >= 2 /\ options.forks[1] # options.forks[2]
    /\ options.verbosity >= 3
    /\ QueuesPart # <<>> /\ PidFilePart # <<>> /\ LogFilePart # <<>>
    /\ options.skip_logging
    /\ Len(tasks_modules) >= 3

\* C9: on win32 handle exits with the child's exit status.
C9_ExitStatusIsChildStatus ==
    pc = "exited" => handoff.status = handoff.returncode

\* the element of the argument vector that follows the flag
ValueAfter(flag) ==
    process_args[(CHOOSE i \in 1..Len(process_args) : process_args[i] = flag) + 1]

\* C10: the counts written after --processes and --threads are the typed
\* values when given, else the environment's values when set, else the CPU
\* count and 8.
C10_CountPrecedence ==
    Built =>
        /\ ValueAfter(S("--processes")) =
              IF cli.processes.type # "NoneType" THEN str(cli.processes.val)
              ELSE IF environ.DRAMATIQ_NPROCS.type # "NoneType" THEN environ.DRAMATIQ_NPROCS.val
              ELSE str(cpu_count)
        /\ ValueAfter(S("--threads")) =
              IF cli.threads.type # "NoneType" THEN str(cli.threads.val)
              ELSE IF environ.DRAMATIQ_NTHREADS.type # "NoneType" THEN environ.DRAMATIQ_NTHREADS.val
              ELSE str(DEFAULT_NTHREADS)

\* --processes comes from the environment, --threads from the command line
\* although the environment sets it too
C10_Witness ==
    /\ Built
    /\ cli.processes.type = "NoneType" /\ environ.DRAMATIQ_NPROCS.type # "NoneType"
    /\ cli.threads.type # "NoneType" /\ environ.DRAMATIQ_NTHREADS.type # "NoneType"
    /\ ValueAfter(S("--processes")) = S("3")
    /\ ValueAfter(S("--threads")) = S("4")

====
